---- MODULE Spec2Model ----
(***************************************************************************)
(* Model of the application form controller ResumeUploadForm               *)
(* (src/src/components/ResumeUploadForm.tsx): field validation, file       *)
(* admission, the submission lifecycle and the preview object-URL          *)
(* lifecycle.                                                              *)
(*                                                                         *)
(* Conventions                                                             *)
(*  - a JavaScript string is a sequence of one-character strings, so that  *)
(*    trim(), length and the regular expressions are computed;             *)
(*  - `undefined` / a missing key of the errors object is UNDEFINED (the   *)
(*    component only ever reads errors.<key>, so the two are the same);    *)
(*  - touched (Record<string, boolean>) is the set of keys mapped to true; *)
(*  - every action is one event handler together with the React commit    *)
(*    that follows it (state update, re-render, effect cleanup);           *)
(*  - dragOver (line 47) only styles the drop zone and is left out;        *)
(*  - after teardown the state keeps its last rendered value: the state    *)
(*    setters of a torn-down component change nothing, toast() still runs. *)
(***************************************************************************)
EXTENDS Integers, Sequences, FiniteSets, TLC

VARIABLES
    mounted,        \* the component instance exists (not yet torn down)
    isSubmitting,   \* useState(false), line 46
    uploadedFile,   \* useState<File | null>(null), line 48
    uploadedFiles,  \* useState<File[]>([]), line 49
    uploadMode,     \* useState<UploadMode>("single"), line 50
    previewFile,    \* line 51
    previewUrl,     \* line 52
    showPreview,    \* line 53
    errors,         \* line 54
    touched,        \* line 55
    formData,       \* lines 57-67
    inFlight,       \* requests handed to fetch() that have not settled yet
    notices,        \* toast() calls made by the last handled event
    nextUrl,        \* number of object URLs created so far (createObjectURL)
    revokes,        \* per object URL: number of revokeObjectURL calls on it
    peakLive,       \* most object URLs live at one moment of the last event
    probe,          \* the argument a pure function is applied to
    answer          \* what the function returned for probe

vars == <<mounted, isSubmitting, uploadedFile, uploadedFiles, uploadMode,
          previewFile, previewUrl, showPreview, errors, touched, formData,
          inFlight, notices, nextUrl, revokes, peakLive, probe, answer>>

formVars == <<errors, touched, formData>>
fileVars == <<uploadedFile, uploadedFiles, uploadMode>>
pureVars == <<probe, answer>>

----------------------------------------------------------------------------
(* Bounds of the model *)

MaxHandles == 2     \* object URLs created in one run
MaxFiles == 2       \* length of the bulk sequence
MaxBatch == 2       \* files in one drop / selection
MaxInFlight == 2    \* requests in flight (the cap only binds if the guard fails)

----------------------------------------------------------------------------
(* JavaScript values *)

UNDEFINED == "undefined"

\* null of useState<File | null>: a record like a File, equal to no File
NullFile == [name |-> "null", type |-> "null", size |-> 0]

\* null of useState<string | null> for previewUrl; object URLs are 1, 2, ...
NullUrl == 0

\* String.prototype.trim and /\s/ : the white space characters of the model
WhiteSpace == {" ", "\t"}

Digits == {"0", "1", "2", "3", "4", "5", "6", "7", "8", "9"}

RECURSIVE TrimStart(_)
TrimStart(s) ==
    IF s # <<>> /\ Head(s) \in WhiteSpace THEN TrimStart(Tail(s)) ELSE s

RECURSIVE TrimEnd(_)
TrimEnd(s) ==
    IF s # <<>> /\ s[Len(s)] \in WhiteSpace
    THEN TrimEnd(SubSeq(s, 1, Len(s) - 1))
    ELSE s

trim(s) == TrimEnd(TrimStart(s))

\* value.replace(/\s/g, "")
StripWhiteSpace(s) == SelectSeq(s, LAMBDA c : c \notin WhiteSpace)

\* /^[^\s@]+@[^\s@]+\.[^\s@]+$/ .test(s)
emailRegexTest(s) ==
    \E i \in 2..Len(s), j \in 4..(Len(s) - 1) :
        /\ i + 1 < j
        /\ s[i] = "@"
        /\ s[j] = "."
        /\ \A k \in (1..Len(s)) \ {i} : s[k] \notin (WhiteSpace \cup {"@"})

\* /^[\d\s\-\+\(\)]{10,20}$/ .test(s)
phoneRegexTest(s) ==
    /\ Len(s) >= 10
    /\ Len(s) <= 20
    /\ \A k \in 1..Len(s) : s[k] \in (Digits \cup WhiteSpace \cup {"-", "+", "(", ")"})

----------------------------------------------------------------------------
(* The form *)

\* Object.keys(formData), in declaration order
FieldOrder == <<"firstName", "lastName", "email", "phone", "location",
                "jobTitle", "experience", "skills", "summary">>

FormKeys == {FieldOrder[i] : i \in 1..Len(FieldOrder)}

ErrorKeys == (FormKeys \ {"summary"}) \cup {"resume"}

\* every key the component ever writes into the errors object
ErrorSlots == FormKeys \cup {"resume"}

experienceLevels == {<<"0", "-", "1">>, <<"1", "-", "3">>, <<"3", "-", "5">>,
                     <<"5", "-", "8">>, <<"8", "-", "1", "0">>, <<"1", "0", "+">>}

EmptyForm == [f \in FormKeys |-> <<>>]

NoErrors == [k \in ErrorSlots |-> UNDEFINED]

\* validateField testing the phone pattern on the value as typed
validateFieldPhoneUnstripped(field, value) ==
    CASE field = "phone" ->
            IF trim(value) = <<>> THEN "Phone number is required"
            ELSE IF ~phoneRegexTest(value) THEN "Please enter a valid phone number"
            ELSE UNDEFINED
      [] field = "experience" ->
            IF value = <<>> THEN "Please select your experience level"
            ELSE UNDEFINED
      [] OTHER -> UNDEFINED

\* validateField measuring the trimmed value of the name fields
validateFieldTrimmedLength(field, value) ==
    CASE field = "firstName" ->
            IF trim(value) = <<>> THEN "First name is required"
            ELSE IF Len(trim(value)) < 2 THEN "First name must be at least 2 characters"
            ELSE IF Len(trim(value)) > 50 THEN "First name must be less than 50 characters"
            ELSE UNDEFINED
      [] field = "lastName" ->
            IF trim(value) = <<>> THEN "Last name is required"
            ELSE IF Len(trim(value)) < 2 THEN "Last name must be at least 2 characters"
            ELSE IF Len(trim(value)) > 50 THEN "Last name must be less than 50 characters"
            ELSE UNDEFINED
      [] OTHER -> UNDEFINED

validateField(field, value) ==
    CASE field = "firstName" ->
            IF trim(value) = <<>> THEN "First name is required"
            ELSE IF Len(value) < 2 THEN "First name must be at least 2 characters"
            ELSE IF Len(value) > 50 THEN "First name must be less than 50 characters"
            ELSE UNDEFINED
      [] field = "lastName" ->
            IF trim(value) = <<>> THEN "Last name is required"
            ELSE IF Len(value) < 2 THEN "Last name must be at least 2 characters"
            ELSE IF Len(value) > 50 THEN "Last name must be less than 50 characters"
            ELSE UNDEFINED
      [] field = "email" ->
            IF trim(value) = <<>> THEN "Email is required"
            ELSE IF ~emailRegexTest(value) THEN "Please enter a valid email address"
            ELSE UNDEFINED
      [] field = "phone" ->
            IF trim(value) = <<>> THEN "Phone number is required"
            ELSE IF ~phoneRegexTest(StripWhiteSpace(value))
                 THEN "Please enter a valid phone number"
            ELSE UNDEFINED
      [] field = "location" ->
            IF trim(value) = <<>> THEN "Location is required"
            ELSE IF Len(value) < 3 THEN "Please enter a valid location"
            ELSE UNDEFINED
      [] field = "jobTitle" ->
            IF trim(value) = <<>> THEN "Job title is required"
            ELSE IF Len(value) < 2 THEN "Job title must be at least 2 characters"
            ELSE UNDEFINED
      [] field = "experience" ->
            IF value = <<>> THEN "Please select your experience level"
            ELSE UNDEFINED
      [] field = "skills" ->
            IF trim(value) = <<>> THEN "Skills are required"
            ELSE IF Len(value) < 5 THEN "Please enter at least a few skills"
            ELSE UNDEFINED
      [] OTHER -> UNDEFINED

\* hasFiles of validateForm (and of progress): a truthy file indicator
hasFiles(mode, file, files) ==
    IF mode = "single" THEN file # NullFile ELSE Len(files) > 0

\* newErrors of validateForm: only failing keys are assigned
newErrors(data, mode, file, files) ==
    [k \in ErrorSlots |->
        IF k = "resume"
        THEN IF hasFiles(mode, file, files) THEN UNDEFINED
             ELSE IF mode = "single" THEN "Please upload your resume"
             ELSE "Please upload at least one resume"
        ELSE IF k = "summary" THEN UNDEFINED
        ELSE validateField(k, data[k])]

\* validateForm without the file-presence check
validateFormIgnoresResume(data, mode, file, files) ==
    \A k \in FormKeys \ {"summary"} : validateField(k, data[k]) = UNDEFINED

\* Object.keys(newErrors).length === 0
validateForm(data, mode, file, files) ==
    \A k \in ErrorSlots : newErrors(data, mode, file, files)[k] = UNDEFINED

----------------------------------------------------------------------------
(* Files *)

validTypes == {"application/pdf", "application/msword",
               "application/vnd.openxmlformats-officedocument.wordprocessingml.document"}

\* isValidFileType with a strict size comparison
isValidFileTypeStrict(file) ==
    /\ file.type \in validTypes
    /\ file.size < 5 * 1024 * 1024

isValidFileType(file) ==
    file.type \in validTypes /\ file.size <= 5 * 1024 * 1024

\* files.filter(isValidFileType)
validFilesOf(batch) == SelectSeq(batch, isValidFileType)

\* a filter that also drops what follows the index
filterIndexDropsRest(files, index, i) ==
    SubSeq(files, 1, IF index < Len(files) THEN index ELSE Len(files))

\* prev.filter((_, i) => i !== index), index counted from 0
RECURSIVE filterIndex(_, _, _)
filterIndex(files, index, i) ==
    IF files = <<>> THEN <<>>
    ELSE IF i = index THEN filterIndex(Tail(files), index, i + 1)
    ELSE <<Head(files)>> \o filterIndex(Tail(files), index, i + 1)

----------------------------------------------------------------------------
(* toast() calls *)

Toast(title, count, variant) == [title |-> title, count |-> count, variant |-> variant]

ToastInvalidFileType == Toast("Invalid file type", 0, "destructive")
ToastSkipped(invalidCount) == Toast("file(s) skipped", invalidCount, "destructive")
ToastValidationError == Toast("Validation Error", 0, "destructive")
ToastSubmitted(fileCount) == Toast("Application Submitted Successfully!", fileCount, "default")
ToastSubmissionFailed == Toast("Submission failed", 0, "destructive")

----------------------------------------------------------------------------
(* Object URLs *)

\* URL.revokeObjectURL(url)
revokeObjectURL(rv, url) == [rv EXCEPT ![url] = @ + 1]

\* the object URLs created and not revoked, given nextUrl = n
liveUrls(rv, n) == {h \in 1..n : rv[h] = 0}

\* the cleanup of the effect keyed on previewUrl: React runs it with the
\* previewUrl of the render that installed it, on unmount and before the
\* effect runs again
\* a cleanup that releases nothing
previewUrlCleanupNone(rv, url) == rv

previewUrlCleanup(rv, url) ==
    IF url # NullUrl THEN revokeObjectURL(rv, url) ELSE rv

\* the dependency list [previewUrl]: the cleanup runs when previewUrl changed
effectCleanup(rv, oldUrl, newUrl) ==
    IF oldUrl # newUrl THEN previewUrlCleanup(rv, oldUrl) ELSE rv

Max(a, b) == IF a >= b THEN a ELSE b

----------------------------------------------------------------------------
(* The environment: what the user types, selects and drops *)

PdfType == "application/pdf"

FileA == [name |-> "a.pdf", type |-> PdfType, size |-> 1000]
FileB == [name |-> "b.doc", type |-> "application/msword", size |-> 5 * 1024 * 1024]
FileC == [name |-> "c.pdf", type |-> PdfType, size |-> 5 * 1024 * 1024 + 1]

Files == {FileA, FileB, FileC}

\* the FileList of a drop or of a selection
Batches == UNION {[1..n -> Files] : n \in 0..MaxBatch}

\* what the user types into each text field
TypedValues(field) ==
    CASE field = "firstName" -> {<<"A">>, <<"A", "l">>}
      [] field = "lastName" -> {<<"L", "i">>}
      [] field = "email" -> {<<"a", "@", "b", ".", "c">>}
      [] field = "phone" -> {<<"0", "1", "2", "3", "4", "5", "6", "7", "8", "9">>}
      [] field = "location" -> {<<"N", "Y", "C">>}
      [] field = "jobTitle" -> {<<"Q", "A">>}
      [] field = "skills" -> {<<"R", "e", "a", "c", "t">>}
      [] field = "summary" -> {<<"H", "i">>}
      [] OTHER -> {}

\* the items of the experience Select the user picks
SelectedLevels == {<<"0", "-", "1">>}

\* the inputs the user leaves (onBlur)
BlurredFields == {"firstName", "experience"}

\* the user fills the form from the top: a field is edited once the fields
\* before it hold something
FilledBefore(field) ==
    \A i \in 1..Len(FieldOrder) :
        (\E j \in (i + 1)..Len(FieldOrder) : FieldOrder[j] = field)
            => formData[FieldOrder[i]] # <<>>

----------------------------------------------------------------------------
(* Initial state: the useState initial values *)

\* the component as constructed
Constructed ==
    /\ mounted = TRUE
    /\ isSubmitting = FALSE
    /\ uploadedFile = NullFile
    /\ uploadedFiles = <<>>
    /\ uploadMode = "single"
    /\ previewFile = NullFile
    /\ previewUrl = NullUrl
    /\ showPreview = FALSE
    /\ errors = NoErrors
    /\ touched = {}
    /\ formData = EmptyForm
    /\ inFlight = <<>>
    /\ notices = <<>>
    /\ nextUrl = 0
    /\ revokes = [h \in 1..MaxHandles |-> 0]
    /\ peakLive = 0

PENDING == "pending"

Init ==
    /\ Constructed
    /\ probe = <<>>
    /\ answer = PENDING

\* an event that does not touch the object URLs
PreviewUntouched ==
    /\ UNCHANGED <<previewFile, previewUrl, showPreview, nextUrl, revokes>>
    /\ peakLive' = Cardinality(liveUrls(revokes, nextUrl))

----------------------------------------------------------------------------
(* Field events *)

\* handleInputChange that never validates
handleInputChangeNoValidate(field, value) ==
    /\ mounted
    /\ UNCHANGED pureVars
    /\ formData' = [formData EXCEPT ![field] = value]
    /\ notices' = <<>>
    /\ PreviewUntouched
    /\ UNCHANGED <<mounted, isSubmitting, errors, touched, fileVars, inFlight>>

\* handleInputChange that stores the error whether the field is touched or not
handleInputChangeAlwaysStores(field, value) ==
    /\ mounted
    /\ UNCHANGED pureVars
    /\ formData' = [formData EXCEPT ![field] = value]
    /\ errors' = [errors EXCEPT ![field] = validateField(field, value)]
    /\ notices' = <<>>
    /\ PreviewUntouched
    /\ UNCHANGED <<mounted, isSubmitting, touched, fileVars, inFlight>>

handleInputChange(field, value) ==
    /\ mounted
    /\ UNCHANGED pureVars
    /\ formData' = [formData EXCEPT ![field] = value]
    /\ errors' = IF field \in touched
                 THEN [errors EXCEPT ![field] = validateField(field, value)]
                 ELSE errors
    /\ notices' = <<>>
    /\ PreviewUntouched
    /\ UNCHANGED <<mounted, isSubmitting, touched, fileVars, inFlight>>

\* onValueChange of the experience Select
experienceValueChange(value) ==
    /\ mounted
    /\ UNCHANGED pureVars
    /\ formData' = [formData EXCEPT !["experience"] = value]
    /\ errors' = IF "experience" \in touched
                 THEN [errors EXCEPT !["experience"] = validateField("experience", value)]
                 ELSE errors
    /\ touched' = touched \cup {"experience"}
    /\ notices' = <<>>
    /\ PreviewUntouched
    /\ UNCHANGED <<mounted, isSubmitting, fileVars, inFlight>>

handleBlur(field) ==
    /\ mounted
    /\ UNCHANGED pureVars
    /\ touched' = touched \cup {field}
    /\ errors' = [errors EXCEPT ![field] = validateField(field, formData[field])]
    /\ notices' = <<>>
    /\ PreviewUntouched
    /\ UNCHANGED <<mounted, isSubmitting, formData, fileVars, inFlight>>

----------------------------------------------------------------------------
(* File events *)

\* handleDrop that stores the files and leaves the resume error standing
handleDropKeepsError(batch) ==
    /\ mounted
    /\ UNCHANGED pureVars
    /\ IF uploadMode = "single"
       THEN IF batch # <<>> /\ isValidFileType(batch[1])
            THEN /\ uploadedFile' = batch[1]
                 /\ notices' = <<>>
                 /\ UNCHANGED uploadedFiles
            ELSE /\ notices' = <<ToastInvalidFileType>>
                 /\ UNCHANGED <<uploadedFile, uploadedFiles>>
       ELSE LET validFiles == validFilesOf(batch)
                invalidCount == Len(batch) - Len(validFiles)
            IN  /\ IF Len(validFiles) > 0
                   THEN uploadedFiles' = uploadedFiles \o validFiles
                   ELSE UNCHANGED uploadedFiles
                /\ notices' = IF invalidCount > 0
                              THEN <<ToastSkipped(invalidCount)>>
                              ELSE <<>>
                /\ UNCHANGED uploadedFile
    /\ PreviewUntouched
    /\ UNCHANGED <<mounted, isSubmitting, uploadMode, errors, touched, formData, inFlight>>

\* handleDrop whose bulk branch skips a file whose name is already listed
handleDropDedupes(batch) ==
    /\ mounted
    /\ UNCHANGED pureVars
    /\ IF uploadMode = "single"
       THEN IF batch # <<>> /\ isValidFileType(batch[1])
            THEN /\ uploadedFile' = batch[1]
                 /\ errors' = [errors EXCEPT !["resume"] = UNDEFINED]
                 /\ notices' = <<>>
                 /\ UNCHANGED uploadedFiles
            ELSE /\ notices' = <<ToastInvalidFileType>>
                 /\ UNCHANGED <<uploadedFile, uploadedFiles, errors>>
       ELSE LET validFiles == validFilesOf(batch)
                invalidCount == Len(batch) - Len(validFiles)
                fresh(f) == \A i \in 1..Len(uploadedFiles) : uploadedFiles[i].name # f.name
            IN  /\ IF Len(validFiles) > 0
                   THEN /\ uploadedFiles' = uploadedFiles \o SelectSeq(validFiles, fresh)
                        /\ errors' = [errors EXCEPT !["resume"] = UNDEFINED]
                   ELSE UNCHANGED <<uploadedFiles, errors>>
                /\ notices' = IF invalidCount > 0
                              THEN <<ToastSkipped(invalidCount)>>
                              ELSE <<>>
                /\ UNCHANGED uploadedFile
    /\ PreviewUntouched
    /\ UNCHANGED <<mounted, isSubmitting, uploadMode, touched, formData, inFlight>>

\* handleDrop whose single branch takes the first valid file of the batch
handleDropFirstValid(batch) ==
    /\ mounted
    /\ UNCHANGED pureVars
    /\ IF uploadMode = "single"
       THEN IF validFilesOf(batch) # <<>>
            THEN /\ uploadedFile' = validFilesOf(batch)[1]
                 /\ errors' = [errors EXCEPT !["resume"] = UNDEFINED]
                 /\ notices' = <<>>
                 /\ UNCHANGED uploadedFiles
            ELSE /\ notices' = <<ToastInvalidFileType>>
                 /\ UNCHANGED <<uploadedFile, uploadedFiles, errors>>
       ELSE LET validFiles == validFilesOf(batch)
                invalidCount == Len(batch) - Len(validFiles)
            IN  /\ IF Len(validFiles) > 0
                   THEN /\ uploadedFiles' = uploadedFiles \o validFiles
                        /\ errors' = [errors EXCEPT !["resume"] = UNDEFINED]
                   ELSE UNCHANGED <<uploadedFiles, errors>>
                /\ notices' = IF invalidCount > 0
                              THEN <<ToastSkipped(invalidCount)>>
                              ELSE <<>>
                /\ UNCHANGED uploadedFile
    /\ PreviewUntouched
    /\ UNCHANGED <<mounted, isSubmitting, uploadMode, touched, formData, inFlight>>

handleDrop(batch) ==
    /\ mounted
    /\ UNCHANGED pureVars
    /\ IF uploadMode = "single"
       THEN IF batch # <<>> /\ isValidFileType(batch[1])
            THEN /\ uploadedFile' = batch[1]
                 /\ errors' = [errors EXCEPT !["resume"] = UNDEFINED]
                 /\ notices' = <<>>
                 /\ UNCHANGED uploadedFiles
            ELSE /\ notices' = <<ToastInvalidFileType>>
                 /\ UNCHANGED <<uploadedFile, uploadedFiles, errors>>
       ELSE LET validFiles == validFilesOf(batch)
                invalidCount == Len(batch) - Len(validFiles)
            IN  /\ IF Len(validFiles) > 0
                   THEN /\ uploadedFiles' = uploadedFiles \o validFiles
                        /\ errors' = [errors EXCEPT !["resume"] = UNDEFINED]
                   ELSE UNCHANGED <<uploadedFiles, errors>>
                /\ notices' = IF invalidCount > 0
                              THEN <<ToastSkipped(invalidCount)>>
                              ELSE <<>>
                /\ UNCHANGED uploadedFile
    /\ PreviewUntouched
    /\ UNCHANGED <<mounted, isSubmitting, uploadMode, touched, formData, inFlight>>

\* handleFileSelect that clears the resume error whatever the batch holds
handleFileSelectAlwaysClears(batch) ==
    /\ mounted
    /\ UNCHANGED pureVars
    /\ errors' = [errors EXCEPT !["resume"] = UNDEFINED]
    /\ IF uploadMode = "single"
       THEN IF batch # <<>> /\ isValidFileType(batch[1])
            THEN /\ uploadedFile' = batch[1]
                 /\ notices' = <<>>
                 /\ UNCHANGED uploadedFiles
            ELSE /\ notices' = IF batch # <<>> THEN <<ToastInvalidFileType>> ELSE <<>>
                 /\ UNCHANGED <<uploadedFile, uploadedFiles>>
       ELSE LET validFiles == validFilesOf(batch)
                invalidCount == Len(batch) - Len(validFiles)
            IN  /\ IF Len(validFiles) > 0
                   THEN uploadedFiles' = uploadedFiles \o validFiles
                   ELSE UNCHANGED uploadedFiles
                /\ notices' = IF invalidCount > 0
                              THEN <<ToastSkipped(invalidCount)>>
                              ELSE <<>>
                /\ UNCHANGED uploadedFile
    /\ PreviewUntouched
    /\ UNCHANGED <<mounted, isSubmitting, uploadMode, touched, formData, inFlight>>

handleFileSelect(batch) ==
    /\ mounted
    /\ UNCHANGED pureVars
    /\ IF uploadMode = "single"
       THEN IF batch # <<>> /\ isValidFileType(batch[1])
            THEN /\ uploadedFile' = batch[1]
                 /\ errors' = [errors EXCEPT !["resume"] = UNDEFINED]
                 /\ notices' = <<>>
                 /\ UNCHANGED uploadedFiles
            ELSE /\ notices' = IF batch # <<>> THEN <<ToastInvalidFileType>> ELSE <<>>
                 /\ UNCHANGED <<uploadedFile, uploadedFiles, errors>>
       ELSE LET validFiles == validFilesOf(batch)
                invalidCount == Len(batch) - Len(validFiles)
            IN  /\ IF Len(validFiles) > 0
                   THEN /\ uploadedFiles' = uploadedFiles \o validFiles
                        /\ errors' = [errors EXCEPT !["resume"] = UNDEFINED]
                   ELSE UNCHANGED <<uploadedFiles, errors>>
                /\ notices' = IF invalidCount > 0
                              THEN <<ToastSkipped(invalidCount)>>
                              ELSE <<>>
                /\ UNCHANGED uploadedFile
    /\ PreviewUntouched
    /\ UNCHANGED <<mounted, isSubmitting, uploadMode, touched, formData, inFlight>>

\* the Remove button of a bulk row; it is rendered for the rows of the list
removeFile(index) ==
    /\ mounted
    /\ UNCHANGED pureVars
    /\ uploadMode = "bulk"
    /\ index \in 0..(Len(uploadedFiles) - 1)
    /\ uploadedFiles' = filterIndex(uploadedFiles, index, 0)
    /\ notices' = <<>>
    /\ PreviewUntouched
    /\ UNCHANGED <<mounted, isSubmitting, uploadedFile, uploadMode, formVars, inFlight>>

\* the Remove button of the single file
removeSingle ==
    /\ mounted
    /\ UNCHANGED pureVars
    /\ uploadMode = "single"
    /\ uploadedFile # NullFile
    /\ uploadedFile' = NullFile
    /\ notices' = <<>>
    /\ PreviewUntouched
    /\ UNCHANGED <<mounted, isSubmitting, uploadedFiles, uploadMode, formVars, inFlight>>

\* handleModeChange without the reset of the resume error
handleModeChangeKeepsError(mode) ==
    /\ mounted
    /\ UNCHANGED pureVars
    /\ uploadMode' = mode
    /\ uploadedFile' = NullFile
    /\ uploadedFiles' = <<>>
    /\ notices' = <<>>
    /\ PreviewUntouched
    /\ UNCHANGED <<mounted, isSubmitting, errors, touched, formData, inFlight>>

\* handleModeChange without setUploadedFiles([])
handleModeChangeKeepsBulk(mode) ==
    /\ mounted
    /\ UNCHANGED pureVars
    /\ uploadMode' = mode
    /\ uploadedFile' = NullFile
    /\ errors' = [errors EXCEPT !["resume"] = UNDEFINED]
    /\ notices' = <<>>
    /\ PreviewUntouched
    /\ UNCHANGED <<mounted, isSubmitting, uploadedFiles, touched, formData, inFlight>>

handleModeChange(mode) ==
    /\ mounted
    /\ UNCHANGED pureVars
    /\ uploadMode' = mode
    /\ uploadedFile' = NullFile
    /\ uploadedFiles' = <<>>
    /\ errors' = [errors EXCEPT !["resume"] = UNDEFINED]
    /\ notices' = <<>>
    /\ PreviewUntouched
    /\ UNCHANGED <<mounted, isSubmitting, touched, formData, inFlight>>

----------------------------------------------------------------------------
(* Preview events *)

\* a Preview button is rendered for this file
previewable(file) ==
    /\ file.type = PdfType
    /\ \/ uploadMode = "single" /\ uploadedFile # NullFile /\ file = uploadedFile
       \/ uploadMode = "bulk" /\ \E i \in 1..Len(uploadedFiles) : uploadedFiles[i] = file

\* openPreview without the release of the previous URL before createObjectURL
openPreviewKeepsOld(file) ==
    /\ mounted
    /\ UNCHANGED pureVars
    /\ LET url == nextUrl + 1
           rv2 == effectCleanup(revokes, previewUrl, url)
       IN  /\ nextUrl' = url
           /\ previewUrl' = url
           /\ previewFile' = file
           /\ showPreview' = TRUE
           /\ revokes' = rv2
           /\ peakLive' = Max(Cardinality(liveUrls(revokes, nextUrl)),
                              Max(Cardinality(liveUrls(revokes, url)),
                                  Cardinality(liveUrls(rv2, url))))
    /\ notices' = <<>>
    /\ UNCHANGED <<mounted, isSubmitting, fileVars, formVars, inFlight>>

openPreview(file) ==
    /\ mounted
    /\ UNCHANGED pureVars
    /\ LET rv1 == IF previewUrl # NullUrl
                  THEN revokeObjectURL(revokes, previewUrl)
                  ELSE revokes
           url == nextUrl + 1
           rv2 == effectCleanup(rv1, previewUrl, url)
       IN  /\ nextUrl' = url
           /\ previewUrl' = url
           /\ previewFile' = file
           /\ showPreview' = TRUE
           /\ revokes' = rv2
           /\ peakLive' = Max(Max(Cardinality(liveUrls(revokes, nextUrl)),
                                  Cardinality(liveUrls(rv1, nextUrl))),
                              Max(Cardinality(liveUrls(rv1, url)),
                                  Cardinality(liveUrls(rv2, url))))
    /\ notices' = <<>>
    /\ UNCHANGED <<mounted, isSubmitting, fileVars, formVars, inFlight>>

closePreview ==
    /\ mounted
    /\ UNCHANGED pureVars
    /\ showPreview' = FALSE
    /\ LET rv1 == IF previewUrl # NullUrl
                  THEN revokeObjectURL(revokes, previewUrl)
                  ELSE revokes
       IN  /\ previewUrl' = NullUrl
           /\ revokes' = effectCleanup(rv1, previewUrl, NullUrl)
    /\ previewFile' = NullFile
    /\ peakLive' = Cardinality(liveUrls(revokes, nextUrl))
    /\ notices' = <<>>
    /\ UNCHANGED <<mounted, isSubmitting, fileVars, formVars, inFlight, nextUrl>>

\* teardown of the component: React runs the cleanup of the mounted effect
unmount ==
    /\ mounted
    /\ UNCHANGED pureVars
    /\ mounted' = FALSE
    /\ revokes' = previewUrlCleanup(revokes, previewUrl)
    /\ peakLive' = Cardinality(liveUrls(revokes, nextUrl))
    /\ notices' = <<>>
    /\ UNCHANGED <<isSubmitting, fileVars, formVars, inFlight,
                   previewFile, previewUrl, showPreview, nextUrl>>

----------------------------------------------------------------------------
(* Submission *)

\* a submit button that is never disabled
submitAlwaysEnabled == TRUE

\* disabled={isSubmitting} of the only submit button of the form
submitEnabled == ~isSubmitting

\* formDataToSend without the trim() of the text values
buildRequestUntrimmed(data, mode, file, files) ==
    [text |-> [k \in FormKeys |-> data[k]],
     uploadMode |-> mode,
     resumes |-> IF mode = "single" /\ file # NullFile
                 THEN << [name |-> <<"resume">>, file |-> file] >>
                 ELSE [i \in 1..Len(files) |->
                          [name |-> <<"resume_", i - 1>>, file |-> files[i]]],
     resumeCount |-> IF mode = "single" /\ file # NullFile
                     THEN <<>>
                     ELSE <<Len(files)>>]

\* formDataToSend
buildRequest(data, mode, file, files) ==
    [text |-> [k \in FormKeys |-> IF k = "experience" THEN data[k] ELSE trim(data[k])],
     uploadMode |-> mode,
     resumes |-> IF mode = "single" /\ file # NullFile
                 THEN << [name |-> <<"resume">>, file |-> file] >>
                 ELSE [i \in 1..Len(files) |->
                          [name |-> <<"resume_", i - 1>>, file |-> files[i]]],
     resumeCount |-> IF mode = "single" /\ file # NullFile
                     THEN <<>>
                     ELSE <<Len(files)>>]

\* handleSubmit without setTouched(allTouched)
handleSubmitKeepsTouched ==
    /\ mounted
    /\ UNCHANGED pureVars
    /\ submitEnabled
    /\ errors' = newErrors(formData, uploadMode, uploadedFile, uploadedFiles)
    /\ IF ~validateForm(formData, uploadMode, uploadedFile, uploadedFiles)
       THEN /\ notices' = <<ToastValidationError>>
            /\ UNCHANGED <<isSubmitting, inFlight>>
       ELSE /\ isSubmitting' = TRUE
            /\ inFlight' = Append(inFlight,
                   buildRequest(formData, uploadMode, uploadedFile, uploadedFiles))
            /\ notices' = <<>>
    /\ PreviewUntouched
    /\ UNCHANGED <<mounted, formData, fileVars, touched>>

\* the synchronous part of handleSubmit, up to the await of fetch()
handleSubmit ==
    /\ mounted
    /\ UNCHANGED pureVars
    /\ submitEnabled
    /\ touched' = FormKeys
    /\ errors' = newErrors(formData, uploadMode, uploadedFile, uploadedFiles)
    /\ IF ~validateForm(formData, uploadMode, uploadedFile, uploadedFiles)
       THEN /\ notices' = <<ToastValidationError>>
            /\ UNCHANGED <<isSubmitting, inFlight>>
       ELSE /\ isSubmitting' = TRUE
            /\ inFlight' = Append(inFlight,
                   buildRequest(formData, uploadMode, uploadedFile, uploadedFiles))
            /\ notices' = <<>>
    /\ PreviewUntouched
    /\ UNCHANGED <<mounted, formData, fileVars>>

\* fileCount of the success toast, from the values handleSubmit closed over
fileCount(request) ==
    IF request.uploadMode = "single" THEN 1 ELSE Len(request.resumes)

RemoveAt(seq, i) == SubSeq(seq, 1, i - 1) \o SubSeq(seq, i + 1, Len(seq))

\* a success branch that forgets setTouched({})
onResponseOkKeepsTouched(request, rest) ==
    /\ inFlight' = rest
    /\ notices' = <<ToastSubmitted(fileCount(request))>>
    /\ IF mounted
       THEN /\ formData' = EmptyForm
            /\ uploadedFile' = NullFile
            /\ uploadedFiles' = <<>>
            /\ errors' = NoErrors
            /\ UNCHANGED <<uploadMode, touched>>
       ELSE UNCHANGED <<formVars, fileVars>>

\* if (response.ok) { ... }
onResponseOk(request, rest) ==
    /\ inFlight' = rest
    /\ notices' = <<ToastSubmitted(fileCount(request))>>
    /\ IF mounted
       THEN /\ formData' = EmptyForm
            /\ uploadedFile' = NullFile
            /\ uploadedFiles' = <<>>
            /\ errors' = NoErrors
            /\ touched' = {}
            /\ UNCHANGED uploadMode
       ELSE UNCHANGED <<formVars, fileVars>>

\* a catch block that sends the request again
onCatchRetries(request, rest) ==
    /\ inFlight' = Append(rest, request)
    /\ notices' = <<ToastSubmissionFailed>>
    /\ UNCHANGED <<formVars, fileVars>>

\* a catch block that drops the selected files
onCatchDropsFiles(request, rest) ==
    /\ inFlight' = rest
    /\ notices' = <<ToastSubmissionFailed>>
    /\ IF mounted
       THEN /\ uploadedFile' = NullFile
            /\ uploadedFiles' = <<>>
            /\ UNCHANGED <<formVars, uploadMode>>
       ELSE UNCHANGED <<formVars, fileVars>>

\* else { throw ... } and catch (error) { ... }
onCatch(request, rest) ==
    /\ inFlight' = rest
    /\ notices' = <<ToastSubmissionFailed>>
    /\ UNCHANGED <<formVars, fileVars>>

\* a handler whose failure path never reaches setIsSubmitting(false)
finallySkipped == UNCHANGED isSubmitting

\* finally { setIsSubmitting(false) }; a state setter of a torn-down
\* component changes nothing
finallyBlock ==
    IF mounted THEN isSubmitting' = FALSE ELSE UNCHANGED isSubmitting

\* the continuation of handleSubmit once fetch() settles:
\* "ok" an OK-class response, "notOk" any other response, "rejected" a throw
Outcomes == {"ok", "notOk", "rejected"}

fetchSettles(i, outcome) ==
    /\ i \in 1..Len(inFlight)
    /\ UNCHANGED pureVars
    /\ IF outcome = "ok"
       THEN onResponseOk(inFlight[i], RemoveAt(inFlight, i))
       ELSE onCatch(inFlight[i], RemoveAt(inFlight, i))
    /\ finallyBlock
    /\ PreviewUntouched
    /\ UNCHANGED mounted

----------------------------------------------------------------------------
(* The specification *)

Next ==
    \/ \E field \in FormKeys \ {"experience"} : \E value \in TypedValues(field) :
          FilledBefore(field) /\ handleInputChange(field, value)
    \/ \E value \in SelectedLevels :
          FilledBefore("experience") /\ experienceValueChange(value)
    \/ \E field \in BlurredFields : handleBlur(field)
    \/ \E batch \in Batches :
          /\ Len(uploadedFiles) + Len(validFilesOf(batch)) <= MaxFiles
          /\ handleDrop(batch)
    \/ \E batch \in Batches :
          /\ Len(uploadedFiles) + Len(validFilesOf(batch)) <= MaxFiles
          /\ uploadMode = "single" => Len(batch) <= 1
          /\ handleFileSelect(batch)
    \/ \E index \in 0..(MaxFiles - 1) : removeFile(index)
    \/ removeSingle
    \/ \E mode \in {"single", "bulk"} : handleModeChange(mode)
    \/ \E file \in Files : previewable(file) /\ nextUrl < MaxHandles /\ openPreview(file)
    \/ showPreview /\ closePreview
    \/ Len(inFlight) < MaxInFlight /\ handleSubmit
    \/ \E i \in 1..MaxInFlight, outcome \in Outcomes : fetchSettles(i, outcome)
    \/ unmount

Spec == Init /\ [][Next]_vars

\* fetch() settles: the transport answers or fails
Settle == \E i \in 1..MaxInFlight, outcome \in Outcomes : fetchSettles(i, outcome)

LiveSpec == Spec /\ WF_vars(Settle)

\* the controller is torn down in the end
TeardownSpec == Spec /\ WF_vars(unmount)

----------------------------------------------------------------------------
(* Properties *)

\* every field except summary passes its rule
AllFieldsPass ==
    \A k \in FormKeys \ {"summary"} : validateField(k, formData[k]) = UNDEFINED

\* a file is present for the active mode
FilePresent ==
    \/ uploadMode = "single" /\ uploadedFile # NullFile
    \/ uploadMode = "bulk" /\ Len(uploadedFiles) >= 1

Settles(outcome) == \E i \in 1..MaxInFlight : fetchSettles(i, outcome)

LiveNow == liveUrls(revokes, nextUrl)

\* C1: the step Idle -> Submitting is taken only from a state in which every
\* field except summary passes its rule and a file is present for the active
\* mode, and it builds one request.
C1_SubmittingOnlyWhenValid ==
    [][(~isSubmitting /\ isSubmitting')
          => /\ AllFieldsPass
             /\ FilePresent
             /\ Len(inFlight') = Len(inFlight) + 1]_vars

C1_Witness ==
    /\ mounted
    /\ isSubmitting
    /\ Len(inFlight) = 1
    /\ touched = FormKeys
    /\ notices = <<>>

\* C2: a submit attempt from a state in which a rule fails or no file is
\* selected marks all nine fields touched, stores the full error mapping,
\* leaves isSubmitting false and sends no request.
C2_InvalidSubmitStaysIdle ==
    [][(handleSubmit /\ ~(AllFieldsPass /\ FilePresent))
          => /\ touched' = FormKeys
             /\ \A k \in FormKeys \ {"summary"} :
                    errors'[k] = validateField(k, formData[k])
             /\ errors'["summary"] = UNDEFINED
             /\ (errors'["resume"] = UNDEFINED) <=> FilePresent
             /\ \E k \in ErrorKeys : errors'[k] # UNDEFINED
             /\ ~isSubmitting'
             /\ inFlight' = inFlight]_vars

C2_Witness ==
    /\ notices = <<ToastValidationError>>
    /\ touched = FormKeys
    /\ ~isSubmitting
    /\ inFlight = <<>>
    /\ errors["firstName"] = "First name must be at least 2 characters"
    /\ errors["resume"] = "Please upload at least one resume"

\* C3: when the transport reports success the machine is Idle and the nine
\* fields are empty, no file is selected, and errors and touched are empty,
\* whatever the state was before the response arrived.
C3_SuccessResets ==
    [][(mounted /\ Settles("ok"))
          => /\ ~isSubmitting'
             /\ \A k \in FormKeys : formData'[k] = <<>>
             /\ uploadedFile' = NullFile
             /\ uploadedFiles' = <<>>
             /\ \A k \in ErrorSlots : errors'[k] = UNDEFINED
             /\ touched' = {}]_vars

\* a bulk submission of two files succeeded after the mode was changed and a
\* field was edited while the request was in flight
C3_Witness ==
    /\ mounted
    /\ notices = <<ToastSubmitted(2)>>
    /\ uploadMode = "single"
    /\ formData = EmptyForm
    /\ touched = {}

\* C4: when the transport fails (a response that is not OK, or a throw) the
\* machine is Idle again, the fields, mode, files, errors and touched are
\* unchanged and exactly one failure notice is emitted.
C4_FailurePreserves ==
    [][(mounted /\ (Settles("notOk") \/ Settles("rejected")))
          => /\ ~isSubmitting'
             /\ UNCHANGED <<formData, uploadMode, uploadedFile, uploadedFiles,
                            errors, touched>>
             /\ notices' = <<ToastSubmissionFailed>>]_vars

\* after a failure the submitted data is still there and passes validation
C4_Witness ==
    /\ mounted
    /\ notices = <<ToastSubmissionFailed>>
    /\ ~isSubmitting
    /\ AllFieldsPass
    /\ FilePresent
    /\ touched = FormKeys

\* C5: while isSubmitting no step starts a request, and at most one request
\* is in flight.
C5_NoDoubleSubmission ==
    [][/\ isSubmitting => Len(inFlight') <= Len(inFlight)
       /\ Len(inFlight') <= 1]_vars

\* Submitting, with a form that would pass validation again
C5_Witness ==
    /\ mounted
    /\ isSubmitting
    /\ inFlight # <<>>
    /\ AllFieldsPass
    /\ FilePresent

\* C6: a mounted controller that is Submitting has a request in flight, and
\* once the transport settles it is Idle again: Submitting leads to Idle.
C6_SubmittingLeadsToIdle ==
    /\ [](mounted /\ isSubmitting => inFlight # <<>>)
    /\ (mounted /\ isSubmitting) ~> (~isSubmitting \/ ~mounted)

C6_Witness ==
    /\ mounted
    /\ ~isSubmitting
    /\ inFlight = <<>>
    /\ Len(notices) = 1
    /\ notices[1].title \in {"Submission failed", "Application Submitted Successfully!"}

\* C7: an accepted submit attempt issues exactly one request, only a submit
\* attempt issues one, and a settled failure (not OK or thrown alike) emits
\* the failure notice and issues none.
C7_OneRequestNoRetry ==
    [][/\ (handleSubmit /\ AllFieldsPass /\ FilePresent)
            => Len(inFlight') = Len(inFlight) + 1
       /\ Len(inFlight') > Len(inFlight) => handleSubmit
       /\ (Settles("notOk") \/ Settles("rejected"))
            => /\ Len(inFlight') = Len(inFlight) - 1
               /\ notices' = <<ToastSubmissionFailed>>]_vars

C7_Witness ==
    /\ notices = <<ToastSubmissionFailed>>
    /\ inFlight = <<>>
    /\ ~isSubmitting

\* C8: no object URL is revoked twice.
C8_NoDoubleRelease == \A h \in 1..MaxHandles : revokes[h] <= 1

\* C9: at every moment, inside an event too, at most one object URL is live.
C9_AtMostOneLive ==
    /\ Cardinality(LiveNow) <= 1
    /\ peakLive <= 1

\* a second preview replaced the first one
C9_Witness ==
    /\ nextUrl = 2
    /\ previewUrl = 2
    /\ revokes[1] >= 1
    /\ LiveNow = {2}

\* C10: no object URL other than the one of the open preview is live, a
\* closed preview holds no URL and no file, a torn-down controller leaves no
\* live URL, and with teardown every live URL is released in the end.
C10_NoDanglingHandle ==
    /\ [](/\ LiveNow \subseteq {previewUrl}
          /\ ~mounted => LiveNow = {}
          /\ ~showPreview => previewUrl = NullUrl /\ previewFile = NullFile)
    /\ \A h \in 1..MaxHandles : (h \in LiveNow) ~> (h \notin LiveNow)

\* torn down while a preview was open: its URL was released by the cleanup
C10_Witness ==
    /\ ~mounted
    /\ showPreview
    /\ previewUrl = 1
    /\ revokes[1] = 1

\* C11: a mode change, to either mode and from any state, leaves no selected
\* file and no resume error, and leaves the value, the error and the touched
\* flag of every form field as they were.
C11_ModeChangeDropsFiles ==
    [][\A mode \in {"single", "bulk"} :
          handleModeChange(mode)
             => /\ uploadMode' = mode
                /\ uploadedFile' = NullFile
                /\ uploadedFiles' = <<>>
                /\ errors'["resume"] = UNDEFINED
                /\ \A k \in FormKeys : errors'[k] = errors[k]
                /\ formData' = formData
                /\ touched' = touched]_vars

\* after a rejected submit in single mode the switch to bulk cleared the
\* resume error and kept the error of firstName
C11_Witness ==
    /\ uploadMode = "bulk"
    /\ uploadedFile = NullFile
    /\ uploadedFiles = <<>>
    /\ touched = FormKeys
    /\ errors["resume"] = UNDEFINED
    /\ errors["firstName"] = "First name must be at least 2 characters"
    /\ notices = <<>>

\* C12: in single mode the bulk sequence is empty, in bulk mode the single
\* file reference is null (and the bulk files are a sequence).
C12_FilesMatchMode ==
    /\ uploadMode \in {"single", "bulk"}
    /\ uploadMode = "single" => uploadedFiles = <<>>
    /\ uploadMode = "bulk" => uploadedFile = NullFile
    /\ uploadedFiles \in Seq(Files)
    /\ uploadedFile \in Files \cup {NullFile}

\* bulk mode holding two files
C12_Witness ==
    /\ uploadMode = "bulk"
    /\ Len(uploadedFiles) = 2
    /\ uploadedFile = NullFile

----------------------------------------------------------------------------
(* isValidFileType applied to one candidate file *)

ProbeTypes == {"application/pdf", "application/msword",
               "application/vnd.openxmlformats-officedocument.wordprocessingml.document",
               "application/PDF", "text/plain", "image/png", ""}

ProbeSizes == {0, 1, 1000, 5 * 1000 * 1000, 5 * 1024 * 1024 - 1, 5 * 1024 * 1024,
               5 * 1024 * 1024 + 1, 10 * 1024 * 1024}

ProbeFiles == [name : {"cv"}, type : ProbeTypes, size : ProbeSizes]

ADMITTED == "admitted"
REJECTED == "rejected"

AdmitInit ==
    /\ Constructed
    /\ probe \in ProbeFiles
    /\ answer = PENDING

applyIsValidFileType ==
    /\ answer = PENDING
    /\ answer' = IF isValidFileType(probe) THEN ADMITTED ELSE REJECTED
    /\ UNCHANGED <<probe, mounted, isSubmitting, fileVars, formVars, inFlight, notices,
                   previewFile, previewUrl, showPreview, nextUrl, revokes, peakLive>>

AdmitNext == applyIsValidFileType

AdmitSpec == AdmitInit /\ [][AdmitNext]_vars

\* C13: a candidate file is admitted exactly when its MIME type is one of
\* the three document types and its size is at most 5242880 bytes; 5242880
\* bytes is admitted and 5242881 bytes is rejected.
C13_AdmittedIffTypeAndSize ==
    answer # PENDING =>
        /\ answer \in {ADMITTED, REJECTED}
        /\ answer = ADMITTED <=>
              /\ probe.type \in
                   {"application/pdf", "application/msword",
                    "application/vnd.openxmlformats-officedocument.wordprocessingml.document"}
              /\ probe.size <= 5242880
        /\ probe.size = 5242881 => answer = REJECTED

\* a Word document of exactly 5 MiB was admitted
C13_Witness ==
    /\ answer = ADMITTED
    /\ probe.type = "application/msword"
    /\ probe.size = 5242880

----------------------------------------------------------------------------
(* Batches of files *)

\* the admission rule, written out
Admissible(f) ==
    /\ f.type \in {"application/pdf", "application/msword",
                   "application/vnd.openxmlformats-officedocument.wordprocessingml.document"}
    /\ f.size <= 5242880

\* a drop or a selection of the batch
Offers(batch) == handleDrop(batch) \/ handleFileSelect(batch)

\* the files of the batch the handler takes in the current mode
Taken(batch) ==
    IF uploadMode = "single"
    THEN IF batch # <<>> /\ Admissible(batch[1]) THEN <<batch[1]>> ELSE <<>>
    ELSE SelectSeq(batch, Admissible)

\* C14: in bulk mode a batch of K files, J of them admissible, appends
\* exactly those J files in batch order: the earlier entries keep their
\* positions, names already present are kept, the length grows by J.
C14_BulkAppendsAdmissible ==
    [][\A batch \in Batches :
          (uploadMode = "bulk" /\ Offers(batch))
             => LET added == SelectSeq(batch, Admissible)
                IN  /\ Len(uploadedFiles') = Len(uploadedFiles) + Len(added)
                    /\ SubSeq(uploadedFiles', 1, Len(uploadedFiles)) = uploadedFiles
                    /\ SubSeq(uploadedFiles', Len(uploadedFiles) + 1, Len(uploadedFiles'))
                          = added]_vars

\* the same file offered twice, the second time next to an oversized one
C14_Witness ==
    /\ uploadMode = "bulk"
    /\ uploadedFiles = <<FileA, FileA>>
    /\ notices = <<ToastSkipped(1)>>

\* C15: a batch of K files, J of them admissible, in either mode, dropped or
\* selected, emits exactly one rejection notice if K-J > 0 and none if
\* K-J = 0 (every file admissible, or the batch empty).
C15_OneNoticeIffRejected ==
    [][\A batch \in Batches :
          Offers(batch)
             => LET K == Len(batch)
                    J == Len(SelectSeq(batch, Admissible))
                IN  /\ K - J > 0 => (Len(notices') = 1 /\ notices'[1].variant = "destructive")
                    /\ K - J = 0 => notices' = <<>>]_vars

\* C16: in single mode a batch of one or more files uses its first file only:
\* admissible, it replaces the current file; otherwise the current file
\* stays; the state after the event is a function of the first file alone.
C16_SingleUsesFirstFile ==
    [][\A batch \in Batches \ {<<>>} :
          (uploadMode = "single" /\ Offers(batch))
             => /\ uploadedFile' = IF Admissible(batch[1]) THEN batch[1] ELSE uploadedFile
                /\ errors' = IF Admissible(batch[1])
                             THEN [errors EXCEPT !["resume"] = UNDEFINED]
                             ELSE errors
                /\ notices' = IF Admissible(batch[1]) THEN <<>> ELSE <<ToastInvalidFileType>>
                /\ UNCHANGED <<uploadedFiles, uploadMode, touched, formData, isSubmitting,
                               inFlight, previewFile, previewUrl, showPreview>>]_vars

\* a first file over the size limit was refused and the file chosen before
\* is still there
C16_Witness ==
    /\ uploadMode = "single"
    /\ uploadedFile = FileB
    /\ notices = <<ToastInvalidFileType>>

\* C17: a drop or selection that admits no file leaves the selected files and
\* the resume error as they were; one that admits a file clears the resume
\* error; both leave the errors, values and touched flags of the form fields
\* as they were.
C17_AdmissionFrame ==
    [][\A batch \in Batches :
          Offers(batch)
             => /\ Taken(batch) = <<>>
                     => /\ UNCHANGED <<uploadedFile, uploadedFiles>>
                        /\ errors'["resume"] = errors["resume"]
                /\ Taken(batch) # <<>> => errors'["resume"] = UNDEFINED
                /\ \A k \in FormKeys : errors'[k] = errors[k]
                /\ UNCHANGED <<formData, touched>>]_vars

\* after a rejected submit in bulk mode a batch with no admissible file was
\* offered: the resume error is still shown
C17_Witness ==
    /\ uploadMode = "bulk"
    /\ uploadedFiles = <<>>
    /\ errors["resume"] = "Please upload at least one resume"
    /\ notices = <<ToastSkipped(2)>>

----------------------------------------------------------------------------
(* The fields alone: change, blur and submit events, one resume selected *)

\* what the user types, failing values included
FieldValues(field) ==
    CASE field = "firstName" -> {<<>>, <<"A">>, <<"A", "l">>}
      [] field = "email" -> {<<"a", "@">>, <<"a", "@", "b", ".", "c">>}
      [] field = "phone" -> {<<"1", "2">>, <<"0", "1", "2", "3", "4", "5", "6", "7", "8", "9">>}
      [] OTHER -> TypedValues(field)

\* the inputs the user leaves
FieldBlurs == {"firstName", "email", "phone", "experience", "skills"}

FieldNext ==
    \/ \E field \in FormKeys \ {"experience"} : \E value \in FieldValues(field) :
          FilledBefore(field) /\ handleInputChange(field, value)
    \/ \E value \in SelectedLevels :
          FilledBefore("experience") /\ experienceValueChange(value)
    \/ \E field \in FieldBlurs : handleBlur(field)
    \/ handleFileSelect(<<FileA>>)
    \/ Len(inFlight) < MaxInFlight /\ handleSubmit
    \/ \E i \in 1..MaxInFlight, outcome \in Outcomes : fetchSettles(i, outcome)

FieldSpec == Init /\ [][FieldNext]_vars

\* C18: for every field in the touched set the stored error is
\* validateField of the field's current value: a failing value of a touched
\* field shows its message, a corrected one shows none.
C18_TouchedErrorIsValidation ==
    /\ \A f \in touched : errors[f] = validateField(f, formData[f])
    /\ "firstName" \in touched =>
          /\ formData["firstName"] = <<"A">>
                => errors["firstName"] = "First name must be at least 2 characters"
          /\ formData["firstName"] = <<"A", "l">> => errors["firstName"] = UNDEFINED
    /\ "email" \in touched =>
          /\ formData["email"] = <<"a", "@">>
                => errors["email"] = "Please enter a valid email address"
          /\ formData["email"] = <<"a", "@", "b", ".", "c">> => errors["email"] = UNDEFINED

\* two touched fields, one holding a failing value, the other a passing one,
\* without a submit attempt
C18_Witness ==
    /\ touched = {"firstName", "email"}
    /\ formData["firstName"] = <<"A">>
    /\ errors["firstName"] = "First name must be at least 2 characters"
    /\ formData["email"] = <<"a", "@", "b", ".", "c">>
    /\ errors["email"] = UNDEFINED

----------------------------------------------------------------------------
(* validateField applied to one value of a name field *)

MaxNameLen == 51    \* longest value typed into a name field

\* n letters
Letters(n) == [i \in 1..n |-> "a"]

\* values with white space at the ends, and blank ones
PaddedValues ==
    {<<" ">>, <<"\t">>, <<" ", " ">>, <<" ", "\t", " ">>,
     <<" ", "A">>, <<"A", " ">>, <<" ", "A", " ">>, <<"A", " ", "l">>,
     <<" ">> \o Letters(49), <<" ">> \o Letters(50)}

NameProbes ==
    [field : {"firstName", "lastName"},
     value : {Letters(n) : n \in 0..MaxNameLen} \cup PaddedValues]

ValidateInit ==
    /\ Constructed
    /\ probe \in NameProbes
    /\ answer = PENDING

applyValidateField ==
    /\ answer = PENDING
    /\ answer' = validateField(probe.field, probe.value)
    /\ UNCHANGED <<probe, mounted, isSubmitting, fileVars, formVars, inFlight, notices,
                   previewFile, previewUrl, showPreview, nextUrl, revokes, peakLive>>

ValidateNext == applyValidateField

ValidateSpec == ValidateInit /\ [][ValidateNext]_vars

\* a value with a character that is not white space
NonBlank(v) == \E i \in 1..Len(v) : v[i] \notin WhiteSpace

\* C20: validateField of firstName and lastName returns no error exactly
\* when the value is not blank and its length (of the value as typed) is in
\* 2..50; a one-character value gets '<First|Last> name must be at least 2
\* characters' and a blank value gets '<First|Last> name is required'.
C20_NameRule ==
    answer # PENDING =>
        LET v == probe.value
            label == IF probe.field = "firstName" THEN "First" ELSE "Last"
        IN  /\ answer = UNDEFINED <=> (NonBlank(v) /\ Len(v) >= 2 /\ Len(v) <= 50)
            /\ (NonBlank(v) /\ Len(v) = 1) =>
                  answer = IF label = "First"
                           THEN "First name must be at least 2 characters"
                           ELSE "Last name must be at least 2 characters"
            /\ ~NonBlank(v) =>
                  answer = IF label = "First"
                           THEN "First name is required"
                           ELSE "Last name is required"

\* a two-character value with one letter passes: the length is that of the
\* value as typed
C20_Witness ==
    /\ probe = [field |-> "lastName", value |-> <<" ", "A">>]
    /\ answer = UNDEFINED

----------------------------------------------------------------------------
(* validateField applied to one value of the phone or the experience field *)

MaxPhoneLen == 21    \* longest run of one character typed into the phone field

\* n copies of the character c
Repeat(c, n) == [i \in 1..n |-> c]

\* phone values with white space, punctuation and letters
SpacedPhones ==
    {<<" ">>, <<" ", "\t">>,
     <<"0", "1", "2", " ", "3", "4", "5", " ", "6", "7", "8", "9">>,
     <<"0", "1", "2", "3", "4", "5", "6", "7", "8", " ">>,
     <<" ", "0", "1", "2", "3", "4", "\t", "5", "6", "7", "8", "9">>,
     <<" ">> \o Repeat("7", 20) \o <<" ">>,
     Repeat("7", 10) \o <<" ">> \o Repeat("7", 11),
     <<"+", "1", " ", "(", "2", "3", "4", ")", " ", "5", "6", "7", "-", "8", "9", "0", "1">>,
     <<"(", "0", "1", "2", ")", "3", "4", "5", "-", "6", "7", "8", "9">>,
     <<"0", "1", "2", "3", "4", "5", "6", "7", "8", "a">>,
     <<"0", "1", "2", ".", "3", "4", "5", ".", "6", "7", "8", "9">>}

PhoneValues ==
    {Repeat(c, n) : c \in {"7", "-", "x"}, n \in 0..MaxPhoneLen} \cup SpacedPhones

\* the six levels, the empty value and values no item of the Select carries
ExperienceValues ==
    experienceLevels \cup
    {<<>>, <<" ">>, <<"2", "0", "+">>, <<"0", "-", "2">>, <<"1", "0">>, <<"a", "b", "c">>}

RuleProbes ==
    [field : {"phone"}, value : PhoneValues]
       \cup [field : {"experience"}, value : ExperienceValues]

RuleInit ==
    /\ Constructed
    /\ probe \in RuleProbes
    /\ answer = PENDING

RuleNext == applyValidateField

RuleSpec == RuleInit /\ [][RuleNext]_vars

\* C21: validateField of phone returns no error exactly when the value is
\* not blank and, with all white space removed, has 10 to 20 characters,
\* each a digit or one of - + ( ).
C21_PhoneRule ==
    (answer # PENDING /\ probe.field = "phone") =>
        LET v == probe.value
            kept == {i \in 1..Len(v) : v[i] \notin WhiteSpace}
        IN  answer = UNDEFINED <=>
               /\ NonBlank(v)
               /\ Cardinality(kept) >= 10
               /\ Cardinality(kept) <= 20
               /\ \A i \in kept : v[i] \in {"0", "1", "2", "3", "4", "5", "6", "7", "8", "9",
                                            "-", "+", "(", ")"}

\* twenty digits between two spaces pass: the length is counted without the
\* white space
C21_Witness ==
    /\ probe = [field |-> "phone", value |-> <<" ">> \o Repeat("7", 20) \o <<" ">>]
    /\ answer = UNDEFINED

----------------------------------------------------------------------------
(* Submissions of values typed with white space around them *)

\* what the user types: values that pass validateField as typed
SubmitValues(field) ==
    CASE field = "firstName" -> {<<" ", "A">>, <<"A", "l", " ">>}
      [] field = "phone" ->
            {<<"0", "1", "2", " ", "3", "4", "5", " ", "6", "7", "8", "9", " ">>}
      [] field = "location" -> {<<" ", "N", "Y", "C">>}
      [] field = "skills" -> {<<"R", "e", "a", "c", "t", " ">>}
      [] field = "summary" -> {<<" ", "H", "i", " ">>}
      [] OTHER -> TypedValues(field)

SubmitNext ==
    \/ \E field \in FormKeys \ {"experience"} : \E value \in SubmitValues(field) :
          FilledBefore(field) /\ handleInputChange(field, value)
    \/ \E value \in SelectedLevels :
          FilledBefore("experience") /\ experienceValueChange(value)
    \/ \E mode \in {"single", "bulk"} : handleModeChange(mode)
    \/ \E batch \in Batches :
          /\ Len(uploadedFiles) + Len(validFilesOf(batch)) <= MaxFiles
          /\ uploadMode = "single" => Len(batch) <= 1
          /\ handleFileSelect(batch)
    \/ Len(inFlight) < MaxInFlight /\ handleSubmit
    \/ \E i \in 1..MaxInFlight, outcome \in Outcomes : fetchSettles(i, outcome)

SubmitSpec == Init /\ [][SubmitNext]_vars

\* the request an accepted submit has just sent
Sent == inFlight'[Len(inFlight')]

\* the characters of v between its first and its last non-blank character
Inner(v) ==
    LET solid == {i \in 1..Len(v) : v[i] \notin WhiteSpace}
    IN  IF solid = {} THEN <<>>
        ELSE LET lo == CHOOSE i \in solid : \A j \in solid : i <= j
                 hi == CHOOSE i \in solid : \A j \in solid : i >= j
             IN  SubSeq(v, lo, hi)

\* C23: the request of an accepted submission carries every form value (the
\* text values without the white space around them, experience as it is),
\* the uploadMode tag and the files of the active mode: in single mode the
\* one entry resume and no resumeCount, in bulk mode resume_0..resume_{n-1}
\* with the files in sequence order and resumeCount = n, n >= 1.
C23_RequestBody ==
    [][(handleSubmit /\ isSubmitting')
          => /\ Len(inFlight') = Len(inFlight) + 1
             /\ DOMAIN Sent.text = FormKeys
             /\ \A k \in FormKeys \ {"experience"} : Sent.text[k] = Inner(formData[k])
             /\ Sent.text["experience"] = formData["experience"]
             /\ Sent.uploadMode = uploadMode
             /\ uploadMode = "single" =>
                   /\ Sent.resumes = << [name |-> <<"resume">>, file |-> uploadedFile] >>
                   /\ uploadedFile # NullFile
                   /\ Sent.resumeCount = <<>>
             /\ uploadMode = "bulk" =>
                   /\ Len(Sent.resumes) = Len(uploadedFiles)
                   /\ \A i \in 1..Len(uploadedFiles) :
                         Sent.resumes[i] = [name |-> <<"resume_", i - 1>>,
                                            file |-> uploadedFiles[i]]
                   /\ Sent.resumeCount = <<Len(uploadedFiles)>>
                   /\ Len(uploadedFiles) >= 1]_vars

\* a bulk request in flight with two files and values sent without the
\* white space typed around them
C23_Witness ==
    /\ isSubmitting
    /\ Len(inFlight) = 1
    /\ inFlight[1].uploadMode = "bulk"
    /\ inFlight[1].resumeCount = <<2>>
    /\ inFlight[1].resumes[2] = [name |-> <<"resume_", 1>>, file |-> FileB]
    /\ formData["firstName"] = <<"A", "l", " ">>
    /\ inFlight[1].text["firstName"] = <<"A", "l">>
    /\ inFlight[1].text["summary"] = <<"H", "i">>

\* C27: every text value of a request in flight satisfies the rule of its
\* field as it was sent: firstName and lastName have 2 to 50 characters,
\* location at least 3, skills at least 5.
C27_SentValuesPassRules ==
    \A i \in 1..Len(inFlight) :
        LET sent == inFlight[i].text
        IN  /\ \A k \in FormKeys \ {"summary"} : validateField(k, sent[k]) = UNDEFINED
            /\ Len(sent["firstName"]) >= 2 /\ Len(sent["firstName"]) <= 50
            /\ Len(sent["lastName"]) >= 2 /\ Len(sent["lastName"]) <= 50
            /\ Len(sent["location"]) >= 3
            /\ Len(sent["skills"]) >= 5

----------------------------------------------------------------------------
(* The progress bar *)

\* the fields array of progress: the eight required values and the file
\* indicator of the active mode
progressFields ==
    [i \in 1..9 |->
        IF i = 9 THEN hasFiles(uploadMode, uploadedFile, uploadedFiles)
        ELSE formData[<<"firstName", "lastName", "email", "phone", "location",
                        "jobTitle", "experience", "skills">>[i]] # <<>>]

\* fields.filter(Boolean).length
filled == Cardinality({i \in 1..9 : progressFields[i]})

\* Math.round(n / d), n >= 0 and d > 0: halves go up
MathRound(n, d) == (2 * n + d) \div (2 * d)

\* progress with Math.floor
progressFloor == (filled * 100) \div Len(progressFields)

\* Math.round((filled / fields.length) * 100)
progress == MathRound(filled * 100, Len(progressFields))

\* C24: progress is 100 * t / 9 rounded to the nearest integer, t the number
\* of truthy items among the eight required values and the file indicator of
\* the active mode; it is in 0..100, 0 for the empty form without a file, and
\* 100 exactly when all nine items are truthy.
C24_ProgressIsRoundedShare ==
    LET required == FormKeys \ {"summary"}
        t == Cardinality({k \in required : formData[k] # <<>>})
                + (IF uploadMode = "single"
                   THEN IF uploadedFile # NullFile THEN 1 ELSE 0
                   ELSE IF Len(uploadedFiles) > 0 THEN 1 ELSE 0)
    IN  /\ progress \in 0..100
        /\ 2 * (9 * progress - 100 * t) <= 9
        /\ 2 * (100 * t - 9 * progress) <= 9
        /\ (formData = EmptyForm /\ uploadedFile = NullFile /\ uploadedFiles = <<>>)
              => progress = 0
        /\ progress = 100 <=> t = 9

\* five of nine items: 55.6 shows as 56
C24_Witness ==
    /\ progress = 56
    /\ uploadedFile = FileA
    /\ formData["phone"] # <<>>
    /\ formData["location"] = <<>>

----------------------------------------------------------------------------
(* Files, errors and previews together *)

\* C25: a stored resume error implies that the active mode holds no file:
\* the resume error is never present next to a selected file (single) or a
\* non-empty sequence (bulk).
C25_ResumeErrorMeansNoFile ==
    errors["resume"] # UNDEFINED =>
        /\ uploadMode = "single" => uploadedFile = NullFile
        /\ uploadMode = "bulk" => uploadedFiles = <<>>
        /\ errors["resume"] = IF uploadMode = "single"
                              THEN "Please upload your resume"
                              ELSE "Please upload at least one resume"

\* a rejected submit attempt without a file stored the resume error
C25_Witness ==
    /\ errors["resume"] = "Please upload at least one resume"
    /\ uploadMode = "bulk"
    /\ uploadedFiles = <<>>
    /\ touched = FormKeys
    /\ notices = <<ToastValidationError>>

\* C26: dropping a list of files and selecting the same list are the same
\* event: from the same state they give the same files, the same errors and
\* the same notices, for every list, the empty one included.
C26_DropEqualsSelect ==
    [][\A batch \in Batches :
          /\ handleDrop(batch) => handleFileSelect(batch)
          /\ handleFileSelect(batch) => handleDrop(batch)]_vars

\* the preview Dialog is modal: while it is open the page behind it takes no
\* user event; the dialog can be closed, a pending fetch() can settle and the
\* page can be left
ModalNext ==
    /\ Next
    /\ showPreview => (closePreview \/ Settle \/ unmount)

ModalSpec == Init /\ [][ModalNext]_vars

\* C28: while a preview is open, the previewed file is one of the files
\* selected in the active mode.
C28_PreviewedFileIsSelected ==
    (mounted /\ showPreview) =>
        \/ uploadMode = "single" /\ uploadedFile # NullFile /\ previewFile = uploadedFile
        \/ uploadMode = "bulk" /\ \E i \in 1..Len(uploadedFiles) : uploadedFiles[i] = previewFile

====
